---- MODULE Spec2Model ----
(***************************************************************************)
(* Differential flatness controller plugin (DF_controller_plugin.cpp).     *)
(*                                                                         *)
(* Real quantities are fixed-point integers in hundredths (Scale): 981 is  *)
(* 9.81, angles are in centiradians.  Vectors are triples, matrices are    *)
(* triples of rows.  Strings of parameter names are sequences of tokens in *)
(* which "." is a token of its own, so that find(".") and substr() are     *)
(* computed and not assumed.                                               *)
(***************************************************************************)
EXTENDS Integers, Sequences, FiniteSets, TLC

(***************************************************************************)
(* Bounds of the model.                                                    *)
(***************************************************************************)
\* longest batch of parameters handed to one parametersCallback call
MaxBatch == 2
\* the yaw rates a trajectory point may carry are Scale * (0..MaxYawRate)
MaxYawRate == 1
\* SpecGains: parameter updates go on while fewer fields than this are written
MaxWritten == 2

\* fixed-point unit: one is Scale
Scale == 100

(***************************************************************************)
(* Fixed-point arithmetic                                                  *)
(***************************************************************************)
Abs(a) == IF a < 0 THEN -a ELSE a

\* a / b rounded to the nearest integer, halves away from zero
RDiv(a, b) ==
    LET q == (2 * Abs(a) + Abs(b)) \div (2 * Abs(b))
    IN  IF (a < 0) = (b < 0) THEN q ELSE -q

FMul(a, b) == RDiv(a * b, Scale)
FDiv(a, b) == RDiv(a * Scale, b)

RECURSIVE SqrtSearch(_, _, _)
SqrtSearch(n, lo, hi) ==
    IF lo >= hi THEN lo
    ELSE LET mid == (lo + hi + 1) \div 2
         IN  IF mid * mid <= n THEN SqrtSearch(n, mid, hi)
                               ELSE SqrtSearch(n, lo, mid - 1)

\* square root of a natural number, rounded to the nearest integer
ISqrt(n) ==
    LET r == SqrtSearch(n, 0, 46340)
    IN  IF n - r * r > r THEN r + 1 ELSE r

Zero3 == <<0, 0, 0>>

VAdd(u, v) == <<u[1] + v[1], u[2] + v[2], u[3] + v[3]>>
VScale(k, v) == <<FMul(k, v[1]), FMul(k, v[2]), FMul(k, v[3])>>
VNeg(v) == <<-v[1], -v[2], -v[3]>>
Dot(u, v) == RDiv(u[1] * v[1] + u[2] * v[2] + u[3] * v[3], Scale)
Cross(u, v) ==
    << RDiv(u[2] * v[3] - u[3] * v[2], Scale),
       RDiv(u[3] * v[1] - u[1] * v[3], Scale),
       RDiv(u[1] * v[2] - u[2] * v[1], Scale) >>

\* Eigen normalized(): a vector of squared norm 0 is returned as it is
Normalized(v) ==
    LET z == v[1] * v[1] + v[2] * v[2] + v[3] * v[3]
        n == ISqrt(z)
    IN  IF z > 0 THEN <<FDiv(v[1], n), FDiv(v[2], n), FDiv(v[3], n)>> ELSE v

ZeroMat == <<Zero3, Zero3, Zero3>>
Col(M, j) == <<M[1][j], M[2][j], M[3][j]>>
Transpose(M) == <<Col(M, 1), Col(M, 2), Col(M, 3)>>
FromCols(a, b, c) == Transpose(<<a, b, c>>)
MatVec(M, v) == <<Dot(M[1], v), Dot(M[2], v), Dot(M[3], v)>>
MatMul(A, B) ==
    [i \in 1..3 |-> [j \in 1..3 |-> Dot(A[i], Col(B, j))]]
MatSub(A, B) ==
    [i \in 1..3 |-> [j \in 1..3 |-> A[i][j] - B[i][j]]]
MatNeg(A) ==
    [i \in 1..3 |-> [j \in 1..3 |-> -A[i][j]]]

\* cos and sin of the yaw angles the model can produce (centiradians)
Cos(a) ==
    CASE a = 0 -> 100 [] a = 10 -> 100 [] a = 20 -> 98
      [] a = 129 -> 28 [] a = 139 -> 18 [] a = 149 -> 8 [] a = 157 -> 0
Sin(a) ==
    CASE a = 0 -> 0 [] a = 10 -> 10 [] a = 20 -> 20
      [] a = 129 -> 96 [] a = 139 -> 98 [] a = 149 -> 100 [] a = 157 -> 100

\* atan2 on the rotation-matrix entries the model can produce
Atan2(y, x) ==
    CASE y = 0 /\ x = 100 -> 0
      [] y = 96 /\ x = 28 -> 129

(***************************************************************************)
(* Attitude: quaternions <<x, y, z, w>>                                    *)
(***************************************************************************)
QIdentity == <<0, 0, 0, 100>>
\* rotation about z by 2 * atan2(0.6, 0.8) = 1.287 rad
QYaw == <<0, 0, 60, 80>>

\* tf2::Matrix3x3(q): Matrix3x3::setRotation
RotationMatrix(q) ==
    LET d  == FMul(q[1], q[1]) + FMul(q[2], q[2]) + FMul(q[3], q[3]) + FMul(q[4], q[4])
        s  == FDiv(2 * Scale, d)
        xs == FMul(q[1], s)
        ys == FMul(q[2], s)
        zs == FMul(q[3], s)
        wx == FMul(q[4], xs)
        wy == FMul(q[4], ys)
        wz == FMul(q[4], zs)
        xx == FMul(q[1], xs)
        xy == FMul(q[1], ys)
        xz == FMul(q[1], zs)
        yy == FMul(q[2], ys)
        yz == FMul(q[2], zs)
        zz == FMul(q[3], zs)
    IN  << <<Scale - (yy + zz), xy - wz, xz + wy>>,
           <<xy + wz, Scale - (xx + zz), yz - wx>>,
           <<xz - wy, yz + wx, Scale - (xx + yy)>> >>

\* the yaw of Matrix3x3::getRPY and of as2::frame::getYawFromQuaternion
GetYaw(q) ==
    LET m == RotationMatrix(q) IN Atan2(m[2][1], m[1][1])

(***************************************************************************)
(* Strings: std::string as a sequence of tokens, positions counted from 0  *)
(***************************************************************************)
\* std::string::npos; npos + 1 wraps around to 0
NPos == -1

RECURSIVE FindFrom(_, _, _)
FindFrom(s, tok, p) ==
    IF p >= Len(s) THEN NPos
    ELSE IF s[p + 1] = tok THEN p
    ELSE FindFrom(s, tok, p + 1)

\* std::string::find
Find(s, tok) == FindFrom(s, tok, 0)

\* std::string::substr(pos, count); count = npos takes the rest
Substr(s, pos, count) ==
    LET n == IF count = NPos \/ pos + count > Len(s) THEN Len(s) - pos ELSE count
    IN  [i \in 1..n |-> s[pos + i]]

\* std::find(...) != end()
Contains(list, x) == \E i \in 1..Len(list) : list[i] = x

\* erase(std::remove(...), end()): every occurrence goes, the order stays
Remove(list, x) == SelectSeq(list, LAMBDA e : e /= x)

(***************************************************************************)
(* Parameter names                                                         *)
(***************************************************************************)
NameMass == <<"mass">>
NameKpX == <<"trajectory_control", ".", "kp", ".", "x">>
NameRollKp == <<"trajectory_control", ".", "roll_control", ".", "kp">>
\* routed to the trajectory controller, but no field has this subname
NameNoField == <<"trajectory_control", ".", "kp", ".", "w">>
\* a parameter of another controller
NameOther == <<"speed_control", ".", "kp", ".", "x">>

\* the names a parameter update may carry
ParamNames == {NameMass, NameKpX, NameRollKp, NameNoField, NameOther}
\* the value a parameter update may carry: 1.0
ParamValues == {Scale}
Parameters == [name : ParamNames, value : ParamValues]

RECURSIVE SeqsUpTo(_, _)
SeqsUpTo(S, n) ==
    IF n = 0 THEN {<<>>}
    ELSE LET shorter == SeqsUpTo(S, n - 1)
         IN  shorter \cup {Append(q, x) : q \in shorter, x \in S}

\* the batches one parametersCallback call may receive
Batches == SeqsUpTo(Parameters, MaxBatch) \ {<<>>}

\* parameters_list_ of the header: the names that must be read, here the
\* listed names among ParamNames
parameters_list_ == <<NameMass, NameKpX, NameRollKp>>

\* a name of the trajectory controller
TrajectoryControl(subname) == <<"trajectory_control", ".">> \o subname

\* the names that address a field of the calculator (pid_handler_)
PidFieldNames ==
    { TrajectoryControl(<<"reset_integral">>), TrajectoryControl(<<"antiwindup_cte">>),
      TrajectoryControl(<<"alpha">>) }
    \cup { TrajectoryControl(<<k, ".", a>>) : k \in {"kp", "ki", "kd"}, a \in {"x", "y", "z"} }

\* the names that address an entry of Kp_ang_mat_
AngularFieldNames ==
    { TrajectoryControl(<<c, ".", "kp">>) :
          c \in {"roll_control", "pitch_control", "yaw_control"} }

\* the names that address a gain field
FieldNames == {NameMass} \cup PidFieldNames \cup AngularFieldNames

(***************************************************************************)
(* Messages and structures                                                 *)
(***************************************************************************)
ControlModes == {"UNSET", "HOVER", "TRAJECTORY", "SPEED"}
YawModes == {"NONE", "YAW_ANGLE", "YAW_SPEED"}
ReferenceFrames == {"UNDEFINED_FRAME", "LOCAL_ENU_FRAME", "BODY_FLU_FRAME"}

\* as2_msgs::msg::ControlMode
ControlMode(c, y, f) == [control_mode |-> c, yaw_mode |-> y, reference_frame |-> f]
\* a default-constructed message
DefaultControlMode == ControlMode("UNSET", "NONE", "UNDEFINED_FRAME")

\* the input modes a caller may request
InModes == {ControlMode(c, y, f) : c \in {"HOVER", "TRAJECTORY", "SPEED"},
                                   y \in YawModes,
                                   f \in {"LOCAL_ENU_FRAME", "BODY_FLU_FRAME"}}
\* the output modes a caller may request
OutModes == {ControlMode("ACRO", "YAW_SPEED", "BODY_FLU_FRAME")}

\* struct UAV_state, default constructed
UAV_state == [position |-> Zero3, velocity |-> Zero3, attitude_state |-> QIdentity]

\* struct Acro_command with the values of resetCommands
ZeroCommand == [PQR |-> Zero3, thrust |-> 0]

\* gravitational_accel_
gravitational_accel_ == <<0, 0, 981>>

flu_frame_id_ == "base_link"

\* the poses, the twists and the converted twists of a state update
PoseMsgs == { [position |-> <<100, 0, 200>>, orientation |-> QIdentity],
              [position |-> <<0, 100, 100>>, orientation |-> QYaw] }
TwistMsgs == { <<100, 0, 0>> }
EnuTwists == { <<100, 0, 0>>, <<0, 100, 0>> }

\* trajectory points: positions, velocities, accelerations of x, y, z, yaw
YawRates == {Scale * k : k \in 0..MaxYawRate}
TrajMsgs ==
    { [positions |-> <<100, 0, 200, 0>>, velocities |-> <<0, 0, 0, r>>,
       accelerations |-> <<0, 0, 0, 0>>] : r \in YawRates }
    \cup
    { [positions |-> <<0, 200, 100, 157>>, velocities |-> <<100, 0, 0, r>>,
       accelerations |-> <<0, 100, 0, 100>>] : r \in YawRates }

\* elapsed times of a compute step
DtValues == {10}

\* what the force-error calculator may answer
ForceErrors == { Zero3, <<100, 0, 0>> }

\* the content of the caller's output messages before a compute step
StaleTwist == [frame_id |-> "", angular |-> <<7, 7, 7>>]
StaleThrust == [frame_id |-> "", thrust |-> 7]

\* pid_controller::PIDController3D as constructed; history is the integrator
\* and filter memory of the calculator
NewPID == [reset_integral |-> FALSE, antiwindup |-> 0, alpha |-> 0,
           Kp |-> Zero3, Ki |-> Zero3, Kd |-> Zero3, history |-> FALSE]

(***************************************************************************)
(* The control law                                                         *)
(***************************************************************************)
\* (float) of a double: 24 bits of mantissa
ToFloat(x) ==
    IF Abs(x) < 16777216 THEN x ELSE 2 * RDiv(x, 2)

\* getForce without the weight of the vehicle
getForce_NoGravity(mass, force_error, _acc_reference) ==
    VAdd(force_error, VScale(mass, _acc_reference))

\* Plugin::getForce, given the answer of pid_handler_->computeControl
getForce(mass, force_error, _acc_reference) ==
    LET force_acceleration == VScale(mass, _acc_reference)
        force_gravity      == VScale(mass, gravitational_accel_)
    IN  VAdd(VAdd(force_error, force_acceleration), force_gravity)

\* RotationError with the second product taken without the transpose
RotationError_NoTranspose(rot_matrix, R_des) ==
    LET Mat_e_rot == MatSub(MatMul(Transpose(R_des), rot_matrix),
                            MatMul(rot_matrix, R_des))
        V_e_rot   == <<Mat_e_rot[3][2], Mat_e_rot[1][3], Mat_e_rot[2][1]>>
    IN  VScale(Scale \div 2, V_e_rot)

\* the rotation error of Plugin::computeTrajectoryControl
RotationError(rot_matrix, R_des) ==
    LET Mat_e_rot == MatSub(MatMul(Transpose(R_des), rot_matrix),
                            MatMul(Transpose(rot_matrix), R_des))
        V_e_rot   == <<Mat_e_rot[3][2], Mat_e_rot[1][3], Mat_e_rot[2][1]>>
    IN  VScale(Scale \div 2, V_e_rot)

\* Plugin::computeTrajectoryControl
computeTrajectoryControl(mass, Kp_ang_mat, force_error, _attitude_state, _acc_reference, _yaw_angle_reference) ==
    LET desired_force == getForce(mass, force_error, _acc_reference)
        rot_matrix    == RotationMatrix(_attitude_state)
        xc_des        == <<Cos(_yaw_angle_reference), Sin(_yaw_angle_reference), 0>>
        zb_des        == Normalized(desired_force)
        yb_des        == Normalized(Cross(zb_des, xc_des))
        xb_des        == Normalized(Cross(yb_des, zb_des))
        R_des         == FromCols(xb_des, yb_des, zb_des)
        E_rot         == RotationError(rot_matrix, R_des)
    IN  [ thrust |-> ToFloat(Dot(desired_force, Normalized(Col(rot_matrix, 3)))),
          PQR    |-> MatVec(MatNeg(Kp_ang_mat), E_rot) ]

(***************************************************************************)
(* State                                                                   *)
(***************************************************************************)
VARIABLES
    pc,                   \* "constructed" until ownInitialize has run first
    flags_,               \* parameters_read, state_received, ref_received
    parameters_to_read_,  \* the names still pending
    mass_,
    Kp_ang_mat_,
    pid_handler_,
    uav_state_,
    control_ref_,
    control_command_,
    control_mode_in_,
    control_mode_out_,
    seen,                 \* history: the listed names delivered since ownInitialize
    written,              \* history: for each field name the value delivered last
                          \* to the object that holds the field, <<>> if none
    since_mode,           \* history: the control mode of the last setMode and what
                          \* was delivered since (state, reference); cleared once a
                          \* setMode other than hover was called, and what was
                          \* delivered since the last such call (state_c, reference_c);
                          \* the flags held when the last setMode was called if
                          \* it was one for hover (state_before, ref_before)
    ret                   \* the last call: its name, arguments and results

plugin == <<flags_, parameters_to_read_, mass_, Kp_ang_mat_, pid_handler_, uav_state_,
            control_ref_, control_command_, control_mode_in_, control_mode_out_>>
vars == <<pc, plugin, seen, written, since_mode, ret>>

ListedNames == {parameters_list_[i] : i \in 1..Len(parameters_list_)}

\* struct Control_ref, default constructed
DefaultControlRef ==
    [position |-> Zero3, velocity |-> Zero3, acceleration |-> Zero3, yaw |-> Zero3]

\* the object as constructed: the flags have no initializer, the handlers
\* are null pointers
Init ==
    /\ pc = "constructed"
    /\ flags_ \in [parameters_read : BOOLEAN, state_received : BOOLEAN,
                   ref_received : BOOLEAN]
    /\ parameters_to_read_ = <<>>
    /\ mass_ = 0
    /\ Kp_ang_mat_ = ZeroMat
    /\ pid_handler_ = "null"
    /\ uav_state_ = UAV_state
    /\ control_ref_ = DefaultControlRef
    /\ control_command_ = ZeroCommand
    /\ control_mode_in_ = DefaultControlMode
    /\ control_mode_out_ = DefaultControlMode
    /\ seen = {}
    /\ written = [n \in FieldNames |-> <<>>]
    /\ since_mode = [set_mode |-> "none", state |-> FALSE, reference |-> FALSE,
                     cleared |-> FALSE, state_c |-> FALSE, reference_c |-> FALSE,
                     state_before |-> FALSE, ref_before |-> FALSE]
    /\ ret = [op |-> "constructor"]

(***************************************************************************)
(* reset                                                                   *)
(***************************************************************************)
\* resetState leaving the vehicle state as it is
resetState_Keep == uav_state_

\* Plugin::resetState
resetState == UAV_state

\* Plugin::resetReferences, on the vehicle state it reads
resetReferences(uav) ==
    [ position     |-> uav.position,
      velocity     |-> Zero3,
      acceleration |-> Zero3,
      yaw          |-> <<GetYaw(uav.attitude_state), 0, 0>> ]

\* resetCommands forgetting the thrust
resetCommands_KeepThrust == [control_command_ EXCEPT !.PQR = Zero3]

\* Plugin::resetCommands
resetCommands == ZeroCommand

\* PIDController3D::resetController
resetController(pid) == [pid EXCEPT !.history = FALSE]

\* reset without resetCommands
reset_NoCommands(pid) ==
    /\ uav_state_' = resetState
    /\ control_ref_' = resetReferences(resetState)
    /\ UNCHANGED control_command_
    /\ pid_handler_' = resetController(pid)

\* Plugin::reset; the four members it writes
reset(pid) ==
    /\ uav_state_' = resetState
    /\ control_ref_' = resetReferences(resetState)
    /\ control_command_' = resetCommands
    /\ pid_handler_' = resetController(pid)

\* Plugin::ownInitialize: the first call of the host, which may repeat it
ownInitialize ==
    /\ pc' = "initialized"
    /\ flags_' = [parameters_read |-> FALSE, state_received |-> FALSE,
                  ref_received |-> FALSE]
    /\ parameters_to_read_' = parameters_list_
    /\ reset(NewPID)
    /\ seen' = {}
    /\ written' = [n \in FieldNames |-> IF n \in PidFieldNames THEN <<>> ELSE written[n]]
    /\ ret' = [op |-> "ownInitialize"]
    /\ UNCHANGED <<mass_, Kp_ang_mat_, control_mode_in_, control_mode_out_, since_mode>>

(***************************************************************************)
(* Parameters                                                              *)
(***************************************************************************)
\* checkParamList setting the flag one name early
checkParamList_Early(param, _params_list, _all_params_read) ==
    LET list == IF Contains(_params_list, param) THEN Remove(_params_list, param)
                                                 ELSE _params_list
    IN  [ list |-> list,
          read |-> IF Len(list) <= 1 THEN TRUE ELSE _all_params_read ]

\* Plugin::checkParamList: the list and the flag it leaves
checkParamList(param, _params_list, _all_params_read) ==
    LET list == IF Contains(_params_list, param) THEN Remove(_params_list, param)
                                                 ELSE _params_list
    IN  [ list |-> list,
          read |-> IF Len(list) = 0 THEN TRUE ELSE _all_params_read ]

\* updateDFParameter with the branch of kp.y calling the setter of kp.x
updateDFParameter_KpYSetsX(_parameter_name, value, pid, Kp) ==
    CASE _parameter_name = <<"reset_integral">> ->
           [pid |-> [pid EXCEPT !.reset_integral = value], Kp |-> Kp]
      [] _parameter_name = <<"antiwindup_cte">> ->
           [pid |-> [pid EXCEPT !.antiwindup = value], Kp |-> Kp]
      [] _parameter_name = <<"alpha">> ->
           [pid |-> [pid EXCEPT !.alpha = value], Kp |-> Kp]
      [] _parameter_name = <<"kp", ".", "x">> ->
           [pid |-> [pid EXCEPT !.Kp[1] = value], Kp |-> Kp]
      [] _parameter_name = <<"kp", ".", "y">> ->
           [pid |-> [pid EXCEPT !.Kp[1] = value], Kp |-> Kp]
      [] _parameter_name = <<"kp", ".", "z">> ->
           [pid |-> [pid EXCEPT !.Kp[3] = value], Kp |-> Kp]
      [] _parameter_name = <<"ki", ".", "x">> ->
           [pid |-> [pid EXCEPT !.Ki[1] = value], Kp |-> Kp]
      [] _parameter_name = <<"ki", ".", "y">> ->
           [pid |-> [pid EXCEPT !.Ki[2] = value], Kp |-> Kp]
      [] _parameter_name = <<"ki", ".", "z">> ->
           [pid |-> [pid EXCEPT !.Ki[3] = value], Kp |-> Kp]
      [] _parameter_name = <<"kd", ".", "x">> ->
           [pid |-> [pid EXCEPT !.Kd[1] = value], Kp |-> Kp]
      [] _parameter_name = <<"kd", ".", "y">> ->
           [pid |-> [pid EXCEPT !.Kd[2] = value], Kp |-> Kp]
      [] _parameter_name = <<"kd", ".", "z">> ->
           [pid |-> [pid EXCEPT !.Kd[3] = value], Kp |-> Kp]
      [] _parameter_name = <<"roll_control", ".", "kp">> ->
           [pid |-> pid, Kp |-> [Kp EXCEPT ![1][1] = value]]
      [] _parameter_name = <<"pitch_control", ".", "kp">> ->
           [pid |-> pid, Kp |-> [Kp EXCEPT ![2][2] = value]]
      [] _parameter_name = <<"yaw_control", ".", "kp">> ->
           [pid |-> pid, Kp |-> [Kp EXCEPT ![3][3] = value]]
      [] OTHER -> [pid |-> pid, Kp |-> Kp]

\* Plugin::updateDFParameter: the calculator and the angular gains it leaves
updateDFParameter(_parameter_name, value, pid, Kp) ==
    CASE _parameter_name = <<"reset_integral">> ->
           [pid |-> [pid EXCEPT !.reset_integral = value], Kp |-> Kp]
      [] _parameter_name = <<"antiwindup_cte">> ->
           [pid |-> [pid EXCEPT !.antiwindup = value], Kp |-> Kp]
      [] _parameter_name = <<"alpha">> ->
           [pid |-> [pid EXCEPT !.alpha = value], Kp |-> Kp]
      [] _parameter_name = <<"kp", ".", "x">> ->
           [pid |-> [pid EXCEPT !.Kp[1] = value], Kp |-> Kp]
      [] _parameter_name = <<"kp", ".", "y">> ->
           [pid |-> [pid EXCEPT !.Kp[2] = value], Kp |-> Kp]
      [] _parameter_name = <<"kp", ".", "z">> ->
           [pid |-> [pid EXCEPT !.Kp[3] = value], Kp |-> Kp]
      [] _parameter_name = <<"ki", ".", "x">> ->
           [pid |-> [pid EXCEPT !.Ki[1] = value], Kp |-> Kp]
      [] _parameter_name = <<"ki", ".", "y">> ->
           [pid |-> [pid EXCEPT !.Ki[2] = value], Kp |-> Kp]
      [] _parameter_name = <<"ki", ".", "z">> ->
           [pid |-> [pid EXCEPT !.Ki[3] = value], Kp |-> Kp]
      [] _parameter_name = <<"kd", ".", "x">> ->
           [pid |-> [pid EXCEPT !.Kd[1] = value], Kp |-> Kp]
      [] _parameter_name = <<"kd", ".", "y">> ->
           [pid |-> [pid EXCEPT !.Kd[2] = value], Kp |-> Kp]
      [] _parameter_name = <<"kd", ".", "z">> ->
           [pid |-> [pid EXCEPT !.Kd[3] = value], Kp |-> Kp]
      [] _parameter_name = <<"roll_control", ".", "kp">> ->
           [pid |-> pid, Kp |-> [Kp EXCEPT ![1][1] = value]]
      [] _parameter_name = <<"pitch_control", ".", "kp">> ->
           [pid |-> pid, Kp |-> [Kp EXCEPT ![2][2] = value]]
      [] _parameter_name = <<"yaw_control", ".", "kp">> ->
           [pid |-> pid, Kp |-> [Kp EXCEPT ![3][3] = value]]
      [] OTHER -> [pid |-> pid, Kp |-> Kp]

\* ParamStep without the test of the controller name
ParamStep_AnyController(st, param) ==
    LET param_name == param.name
        checked    == IF st.read THEN [list |-> st.list, read |-> st.read]
                      ELSE checkParamList(param_name, st.list, st.read)
    IN  IF param_name = <<"mass">>
        THEN [st EXCEPT !.mass = param.value,
                        !.list = checked.list, !.read = checked.read]
        ELSE LET controller    == Substr(param_name, 0, Find(param_name, "."))
                 param_subname == Substr(param_name, Find(param_name, ".") + 1, NPos)
                 upd           == updateDFParameter(param_subname, param.value,
                                                    st.pid, st.Kp)
             IN  IF controller = controller
                 THEN [st EXCEPT !.pid = upd.pid, !.Kp = upd.Kp,
                                 !.list = checked.list, !.read = checked.read]
                 ELSE st

\* ParamStep taking the mass only while parameters are still to be read
ParamStep_MassOnce(st, param) ==
    LET param_name == param.name
        checked    == IF st.read THEN [list |-> st.list, read |-> st.read]
                      ELSE checkParamList(param_name, st.list, st.read)
    IN  IF param_name = <<"mass">>
        THEN [st EXCEPT !.mass = IF st.read THEN st.mass ELSE param.value,
                        !.list = checked.list, !.read = checked.read]
        ELSE LET controller    == Substr(param_name, 0, Find(param_name, "."))
                 param_subname == Substr(param_name, Find(param_name, ".") + 1, NPos)
                 upd           == updateDFParameter(param_subname, param.value,
                                                    st.pid, st.Kp)
             IN  IF controller = <<"trajectory_control">>
                 THEN [st EXCEPT !.pid = upd.pid, !.Kp = upd.Kp,
                                 !.list = checked.list, !.read = checked.read]
                 ELSE st

\* what one round of the loop of parametersCallback does to
\* st = [mass, pid, Kp, list, read]
ParamStep(st, param) ==
    LET param_name == param.name
        checked    == IF st.read THEN [list |-> st.list, read |-> st.read]
                      ELSE checkParamList(param_name, st.list, st.read)
    IN  IF param_name = <<"mass">>
        THEN [st EXCEPT !.mass = param.value,
                        !.list = checked.list, !.read = checked.read]
        ELSE LET controller    == Substr(param_name, 0, Find(param_name, "."))
                 param_subname == Substr(param_name, Find(param_name, ".") + 1, NPos)
                 upd           == updateDFParameter(param_subname, param.value,
                                                    st.pid, st.Kp)
             IN  IF controller = <<"trajectory_control">>
                 THEN [st EXCEPT !.pid = upd.pid, !.Kp = upd.Kp,
                                 !.list = checked.list, !.read = checked.read]
                 ELSE st

RECURSIVE ParamLoop(_, _)
ParamLoop(st, parameters) ==
    IF parameters = <<>> THEN st
    ELSE ParamLoop(ParamStep(st, Head(parameters)), Tail(parameters))

\* history: written after the parameters of a batch were delivered in order
RECURSIVE WrittenAfter(_, _)
WrittenAfter(w, parameters) ==
    IF parameters = <<>> THEN w
    ELSE LET param == Head(parameters)
         IN  WrittenAfter(IF param.name \in FieldNames
                          THEN [w EXCEPT ![param.name] = <<param.value>>]
                          ELSE w,
                          Tail(parameters))

\* Plugin::parametersCallback
parametersCallback(parameters) ==
    /\ pc = "initialized"
    /\ LET st == ParamLoop([mass |-> mass_, pid |-> pid_handler_, Kp |-> Kp_ang_mat_,
                            list |-> parameters_to_read_,
                            read |-> flags_.parameters_read], parameters)
       IN  /\ mass_' = st.mass
           /\ pid_handler_' = st.pid
           /\ Kp_ang_mat_' = st.Kp
           /\ parameters_to_read_' = st.list
           /\ flags_' = [flags_ EXCEPT !.parameters_read = st.read]
    /\ seen' = seen \cup ({parameters[i].name : i \in 1..Len(parameters)}
                           \cap ListedNames)
    /\ written' = WrittenAfter(written, parameters)
    /\ ret' = [op |-> "parametersCallback", successful |-> TRUE, reason |-> "success"]
    /\ UNCHANGED <<pc, uav_state_, control_ref_, control_command_, control_mode_in_,
                   control_mode_out_, since_mode>>

(***************************************************************************)
(* State, reference and mode                                               *)
(***************************************************************************)
\* tf_handler_->convert(twist, enu_frame_id_): the transform service decides
Convert(twist_msg_flu) == EnuTwists

\* Plugin::updateState
updateState(pose_msg, twist_msg, twist_msg_enu) ==
    /\ pc = "initialized"
    /\ twist_msg_enu \in Convert(twist_msg)
    /\ uav_state_' = [ position       |-> pose_msg.position,
                       velocity       |-> twist_msg_enu,
                       attitude_state |-> pose_msg.orientation ]
    /\ flags_' = [flags_ EXCEPT !.state_received = TRUE]
    /\ since_mode' = [since_mode EXCEPT !.state = TRUE, !.state_c = TRUE]
    /\ ret' = [op |-> "updateState"]
    /\ UNCHANGED <<pc, parameters_to_read_, mass_, Kp_ang_mat_, pid_handler_,
                   control_ref_, control_command_, control_mode_in_, control_mode_out_,
                   seen, written>>

\* ReferenceAccepted taking a reference in every mode
ReferenceAccepted_Any(mode) == TRUE

\* ReferenceAccepted taking a reference in hover too
ReferenceAccepted_Hover(mode) == mode.control_mode \in {"TRAJECTORY", "HOVER"}

\* the guard of Plugin::updateReference: the modes that take a reference
ReferenceAccepted(mode) == mode.control_mode = "TRAJECTORY"

\* Plugin::updateReference
updateReference(traj_msg) ==
    /\ pc = "initialized"
    /\ IF ~ReferenceAccepted(control_mode_in_)
       THEN UNCHANGED <<control_ref_, flags_>>
       ELSE /\ control_ref_' =
                 [ position     |-> SubSeq(traj_msg.positions, 1, 3),
                   velocity     |-> SubSeq(traj_msg.velocities, 1, 3),
                   acceleration |-> SubSeq(traj_msg.accelerations, 1, 3),
                   yaw          |-> <<traj_msg.positions[4], traj_msg.velocities[4],
                                      traj_msg.accelerations[4]>> ]
            /\ flags_' = [flags_ EXCEPT !.ref_received = TRUE]
    /\ since_mode' = [since_mode EXCEPT !.reference = TRUE, !.reference_c = TRUE]
    /\ ret' = [op |-> "updateReference", traj_msg |-> traj_msg]
    /\ UNCHANGED <<pc, parameters_to_read_, mass_, Kp_ang_mat_, pid_handler_,
                   uav_state_, control_command_, control_mode_in_, control_mode_out_,
                   seen, written>>

\* HoverMode storing the request as it came
HoverMode_Verbatim(in_mode) == in_mode

\* the input mode Plugin::setMode stores for a hover request
HoverMode(in_mode) ==
    ControlMode(in_mode.control_mode, "YAW_ANGLE", "LOCAL_ENU_FRAME")

\* ClearReceived forgetting state_received
ClearReceived_KeepState(flags) == [flags EXCEPT !.ref_received = FALSE]

\* ClearReceived forgetting ref_received
ClearReceived_KeepRef(flags) == [flags EXCEPT !.state_received = FALSE]

\* the flags Plugin::setMode leaves for a request other than hover
ClearReceived(flags) ==
    [flags EXCEPT !.ref_received = FALSE, !.state_received = FALSE]

\* Plugin::setMode
setMode(in_mode, out_mode) ==
    /\ pc = "initialized"
    /\ IF in_mode.control_mode = "HOVER"
       THEN /\ control_mode_in_' = HoverMode(in_mode)
            /\ UNCHANGED flags_
       ELSE /\ flags_' = ClearReceived(flags_)
            /\ control_mode_in_' = in_mode
    /\ control_mode_out_' = out_mode
    /\ reset(pid_handler_)
    /\ since_mode' =
         IF in_mode.control_mode = "HOVER"
         THEN [since_mode EXCEPT !.set_mode = in_mode.control_mode,
                                 !.state = FALSE, !.reference = FALSE,
                                 !.state_before = flags_.state_received,
                                 !.ref_before = flags_.ref_received]
         ELSE [set_mode |-> in_mode.control_mode, state |-> FALSE, reference |-> FALSE,
               cleared |-> TRUE, state_c |-> FALSE, reference_c |-> FALSE,
               state_before |-> FALSE, ref_before |-> FALSE]
    /\ ret' = [op |-> "setMode", in_mode |-> in_mode, out_mode |-> out_mode,
               result |-> TRUE]
    /\ UNCHANGED <<pc, parameters_to_read_, mass_, Kp_ang_mat_, seen, written>>

(***************************************************************************)
(* The compute step                                                        *)
(***************************************************************************)
\* ReadinessGate without the check of ref_received
ReadinessGate_NoRefCheck(flags) ==
    IF ~flags.state_received THEN "State not received yet"
    ELSE IF ~flags.parameters_read THEN "Parameters not read yet"
    ELSE "ready"

\* ReadinessGate with the check of parameters_read moved to the front
ReadinessGate_ParamsFirst(flags) ==
    IF ~flags.parameters_read THEN "Parameters not read yet"
    ELSE IF ~flags.state_received THEN "State not received yet"
    ELSE IF ~flags.ref_received THEN "State changed, but ref not recived yet"
    ELSE "ready"

\* the readiness checks of Plugin::computeOutput in their order: the message
\* of the first one that fails, "ready" when none does
ReadinessGate(flags) ==
    IF ~flags.state_received THEN "State not received yet"
    ELSE IF ~flags.parameters_read THEN "Parameters not read yet"
    ELSE IF ~flags.ref_received THEN "State changed, but ref not recived yet"
    ELSE "ready"

\* YawSwitch leaving the yaw rate out
YawSwitch_NoRate(mode, uav, ref, dt) ==
    CASE mode.yaw_mode = "YAW_ANGLE" -> ref
      [] mode.yaw_mode = "YAW_SPEED" ->
           [ref EXCEPT !.yaw[1] = GetYaw(uav.attitude_state)]
      [] OTHER -> ref

\* the switch on control_mode_in_.yaw_mode: the reference it leaves
YawSwitch(mode, uav, ref, dt) ==
    CASE mode.yaw_mode = "YAW_ANGLE" -> ref
      [] mode.yaw_mode = "YAW_SPEED" ->
           [ref EXCEPT !.yaw[1] = GetYaw(uav.attitude_state) + FMul(ref.yaw[2], dt)]
      [] OTHER -> ref

\* YawModeKnown with the default case falling through
YawModeKnown_Any(mode) == TRUE

YawModeKnown(mode) == mode.yaw_mode \in {"YAW_ANGLE", "YAW_SPEED"}

ControlModeKnown(mode) == mode.control_mode = "TRAJECTORY"

\* Plugin::getOutput: the two messages it writes
getOutput(command) ==
    [ twist  |-> [frame_id |-> flu_frame_id_, angular |-> command.PQR],
      thrust |-> [frame_id |-> flu_frame_id_, thrust |-> command.thrust] ]

\* a failed compute step: nothing is written to the caller's messages
Failure(reason, dt, twist, thrust) ==
    [op |-> "computeOutput", result |-> FALSE, reason |-> reason, dt |-> dt,
     twist_before |-> twist, thrust_before |-> thrust,
     twist |-> twist, thrust |-> thrust]

\* Plugin::computeOutput; twist and thrust are the caller's messages,
\* force_error is the answer of pid_handler_->computeControl
computeOutput(dt, twist, thrust, force_error) ==
    /\ pc = "initialized"
    /\ IF ReadinessGate(flags_) /= "ready"
       THEN /\ ret' = Failure(ReadinessGate(flags_), dt, twist, thrust)
            /\ UNCHANGED <<control_command_, control_ref_, pid_handler_>>
       ELSE IF ~YawModeKnown(control_mode_in_)
       THEN /\ control_command_' = resetCommands
            /\ ret' = Failure("Unknown yaw mode", dt, twist, thrust)
            /\ UNCHANGED <<control_ref_, pid_handler_>>
       ELSE IF ~ControlModeKnown(control_mode_in_)
       THEN /\ control_command_' = resetCommands
            /\ control_ref_' = YawSwitch(control_mode_in_, uav_state_, control_ref_, dt)
            /\ ret' = Failure("Unknown control mode", dt, twist, thrust)
            /\ UNCHANGED pid_handler_
       ELSE LET ref     == YawSwitch(control_mode_in_, uav_state_, control_ref_, dt)
                command == computeTrajectoryControl(mass_, Kp_ang_mat_, force_error,
                                                    uav_state_.attitude_state,
                                                    ref.acceleration, ref.yaw[1])
                out     == getOutput(command)
            IN  /\ control_ref_' = ref
                /\ pid_handler_' = [pid_handler_ EXCEPT !.history = TRUE]
                /\ control_command_' = command
                /\ ret' = [op |-> "computeOutput", result |-> TRUE, reason |-> "ok",
                           dt |-> dt, force_error |-> force_error,
                           twist_before |-> twist, thrust_before |-> thrust,
                           twist |-> out.twist, thrust |-> out.thrust]
    /\ UNCHANGED <<pc, flags_, parameters_to_read_, mass_, Kp_ang_mat_, uav_state_,
                   control_mode_in_, control_mode_out_, seen, written, since_mode>>

(***************************************************************************)
(* Specification                                                           *)
(***************************************************************************)
Next ==
    \/ ownInitialize
    \/ \E parameters \in Batches : parametersCallback(parameters)
    \/ \E pose_msg \in PoseMsgs, twist_msg \in TwistMsgs, twist_msg_enu \in EnuTwists :
          updateState(pose_msg, twist_msg, twist_msg_enu)
    \/ \E traj_msg \in TrajMsgs : updateReference(traj_msg)
    \/ \E in_mode \in InModes, out_mode \in OutModes : setMode(in_mode, out_mode)
    \/ \E dt \in DtValues, force_error \in ForceErrors :
          computeOutput(dt, StaleTwist, StaleThrust, force_error)

Spec == Init /\ [][Next]_vars

(***************************************************************************)
(* Properties                                                              *)
(***************************************************************************)
NotReadyReasons ==
    {"State not received yet", "Parameters not read yet",
     "State changed, but ref not recived yet"}

DispatchReasons == {"Unknown yaw mode", "Unknown control mode", "ok"}

AllFlags == flags_.parameters_read /\ flags_.state_received /\ flags_.ref_received

\* C1: a compute step returns one of the three not-ready failures if and only
\* if one of parameters_read, state_received, ref_received is false at the
\* call (computeOutput never writes the flags, so they are those of the call);
\* with all three true it reaches the dispatch on yaw mode and control mode.
C1_NotReadyIffFlagFalse ==
    ret.op = "computeOutput" =>
        /\ ret.reason \in NotReadyReasons <=> ~AllFlags
        /\ ret.reason \in NotReadyReasons => ~ret.result
        /\ AllFlags => ret.reason \in DispatchReasons

C1_Witness ==
    /\ ret.op = "computeOutput"
    /\ AllFlags
    /\ ret.reason = "ok"

\* C2: the not-ready reason reported is that of the first false flag in the
\* order state_received, parameters_read, ref_received, for every combination
\* of the flags.
C2_ReasonPriority ==
    ret.op = "computeOutput" =>
        /\ ~flags_.state_received => ret.reason = "State not received yet"
        /\ flags_.state_received /\ ~flags_.parameters_read
              => ret.reason = "Parameters not read yet"
        /\ flags_.state_received /\ flags_.parameters_read /\ ~flags_.ref_received
              => ret.reason = "State changed, but ref not recived yet"

C2_Witness ==
    /\ ret.op = "computeOutput"
    /\ ~flags_.state_received /\ ~flags_.parameters_read /\ flags_.ref_received
    /\ ret.reason = "State not received yet"

\* C3: after setMode, a hover request is stored as (HOVER, YAW_ANGLE,
\* LOCAL_ENU_FRAME) whatever yaw mode and frame came with it; any other
\* request is stored as it came and state_received and ref_received are false.
C3_SetModeStores ==
    ret.op = "setMode" =>
        IF ret.in_mode.control_mode = "HOVER"
        THEN control_mode_in_ = [control_mode |-> "HOVER", yaw_mode |-> "YAW_ANGLE",
                                 reference_frame |-> "LOCAL_ENU_FRAME"]
        ELSE /\ control_mode_in_ = ret.in_mode
             /\ ~flags_.state_received
             /\ ~flags_.ref_received

C3_Witness ==
    /\ ret.op = "setMode"
    /\ ret.in_mode = [control_mode |-> "HOVER", yaw_mode |-> "YAW_SPEED",
                      reference_frame |-> "BODY_FLU_FRAME"]

PassedGate == ret.op = "computeOutput" /\ ret.reason \in DispatchReasons

\* C4 as claimed: after every setMode, hover included, state_received and
\* ref_received are false, and a compute step passes the readiness gate only
\* after a state update and a reference update that follow the last setMode.
C4_Original ==
    /\ ret.op = "setMode" => ~flags_.state_received /\ ~flags_.ref_received
    /\ PassedGate /\ since_mode.set_mode /= "none"
          => since_mode.state /\ since_mode.reference

\* C4: after every setMode that requests a control mode other than HOVER,
\* state_received and ref_received are false, and a compute step passes the
\* readiness gate only after a state update and a reference update that
\* follow the last such setMode.
C4_NonHoverForcesNotReady ==
    /\ ret.op = "setMode" /\ ret.in_mode.control_mode /= "HOVER"
          => ~flags_.state_received /\ ~flags_.ref_received
    /\ PassedGate => since_mode.cleared /\ since_mode.state_c /\ since_mode.reference_c

C4_Witness ==
    /\ ret.op = "setMode"
    /\ ret.in_mode.control_mode = "SPEED"
    /\ since_mode.cleared
    /\ flags_.parameters_read

\* C5: from ownInitialize on, parameters_read is true exactly when every name
\* of parameters_list_ has been delivered by a parameter update since, and
\* once true it stays true under every later call of parametersCallback,
\* setMode, updateState, updateReference and computeOutput.
C5_ParametersRead ==
    /\ [](pc = "initialized" => (flags_.parameters_read <=> ListedNames \subseteq seen))
    /\ [][pc = "initialized" /\ flags_.parameters_read /\ ret'.op /= "ownInitialize"
            => flags_'.parameters_read]_vars

C5_Witness ==
    /\ flags_.parameters_read
    /\ ret.op = "parametersCallback"
    /\ parameters_to_read_ = <<>>

\* the reference a trajectory point carries
ReferenceOf(traj_msg) ==
    [ position     |-> <<traj_msg.positions[1], traj_msg.positions[2],
                         traj_msg.positions[3]>>,
      velocity     |-> <<traj_msg.velocities[1], traj_msg.velocities[2],
                         traj_msg.velocities[3]>>,
      acceleration |-> <<traj_msg.accelerations[1], traj_msg.accelerations[2],
                         traj_msg.accelerations[3]>>,
      yaw          |-> <<traj_msg.positions[4], traj_msg.velocities[4],
                         traj_msg.accelerations[4]>> ]

\* C6: updateReference in a control mode other than TRAJECTORY changes
\* nothing of the controller; in TRAJECTORY it replaces the four fields of the
\* reference by those of the message and sets ref_received.
C6_UpdateReference ==
    [][ret'.op = "updateReference" =>
          IF control_mode_in_.control_mode = "TRAJECTORY"
          THEN /\ control_ref_' = ReferenceOf(ret'.traj_msg)
               /\ flags_'.ref_received
          ELSE UNCHANGED plugin]_vars

C6_Witness ==
    /\ ret.op = "updateReference"
    /\ control_mode_in_.control_mode = "HOVER"
    /\ control_ref_ /= ReferenceOf(ret.traj_msg)

\* C7: with the three flags true, a compute step fails and leaves the
\* caller's twist and thrust messages unwritten when the yaw mode is neither
\* YAW_ANGLE nor YAW_SPEED or the control mode is not TRAJECTORY; otherwise it
\* succeeds and both messages carry the stored command.
C7_Dispatch ==
    ret.op = "computeOutput" /\ AllFlags =>
        LET known == /\ control_mode_in_.yaw_mode \in {"YAW_ANGLE", "YAW_SPEED"}
                     /\ control_mode_in_.control_mode = "TRAJECTORY"
        IN  /\ ret.result <=> known
            /\ ~known => ret.twist = ret.twist_before /\ ret.thrust = ret.thrust_before
            /\ known => /\ ret.twist.angular = control_command_.PQR
                        /\ ret.thrust.thrust = control_command_.thrust
                        /\ ret.twist.frame_id = flu_frame_id_
                        /\ ret.thrust.frame_id = flu_frame_id_

C7_Witness ==
    /\ ret.op = "computeOutput"
    /\ AllFlags
    /\ control_mode_in_.control_mode = "TRAJECTORY"
    /\ control_mode_in_.yaw_mode = "NONE"
    /\ ~ret.result

\* C8: a compute step that fails leaves the flags, the mode, the vehicle
\* state, the reference, the stored command, the gains and the pending list
\* as they were.
C8_FailureChangesNothing ==
    [][ret'.op = "computeOutput" /\ ~ret'.result => UNCHANGED plugin]_vars

C8_Witness ==
    /\ ret.op = "computeOutput"
    /\ ret.reason = "Unknown control mode"
    /\ pid_handler_.Kp /= Zero3

\* C9: after a compute step the stored command is zero if the step failed,
\* and the pair computed in that step from the state and reference held if
\* it succeeded.
C9_CommandZeroOrComplete ==
    ret.op = "computeOutput" =>
        IF ret.result
        THEN control_command_ =
                 computeTrajectoryControl(mass_, Kp_ang_mat_, ret.force_error,
                                          uav_state_.attitude_state,
                                          control_ref_.acceleration, control_ref_.yaw[1])
        ELSE control_command_ = [PQR |-> <<0, 0, 0>>, thrust |-> 0]

C9_Witness ==
    /\ ret.op = "computeOutput"
    /\ ret.result
    /\ control_command_.thrust /= 0
    /\ control_command_.PQR /= <<0, 0, 0>>

\* C10: after every setMode, hover or not, the vehicle state is the default
\* UAV_state, the reference is its reset default, the stored command is zero
\* and the force-error calculator is reset.
C10_SetModeResets ==
    ret.op = "setMode" =>
        /\ uav_state_ = UAV_state
        /\ control_ref_.position = UAV_state.position
        /\ control_ref_.velocity = <<0, 0, 0>>
        /\ control_ref_.acceleration = <<0, 0, 0>>
        /\ control_ref_.yaw = <<GetYaw(UAV_state.attitude_state), 0, 0>>
        /\ control_command_ = [PQR |-> <<0, 0, 0>>, thrust |-> 0]
        /\ ~pid_handler_.history

C10_Witness ==
    /\ ret.op = "setMode"
    /\ ret.in_mode.control_mode = "HOVER"
    /\ flags_.state_received
    /\ flags_.ref_received
    /\ flags_.parameters_read

\* the yaw of an attitude, in centiradians
YawOfAttitude(q) ==
    CASE q = <<0, 0, 0, 100>> -> 0
      [] q = <<0, 0, 60, 80>> -> 129

\* C11: a reset of the reference (reset() in ownInitialize or setMode) leaves
\* the position reference at the vehicle position known when it was called,
\* the one updateState delivered last, the velocity and acceleration
\* references at zero and the yaw reference at the yaw of the attitude known
\* then, with rate and acceleration zero.
C11_ResetHoldsLastKnown ==
    [][ret'.op \in {"ownInitialize", "setMode"} =>
          /\ control_ref_'.position = uav_state_.position
          /\ control_ref_'.velocity = <<0, 0, 0>>
          /\ control_ref_'.acceleration = <<0, 0, 0>>
          /\ control_ref_'.yaw = <<YawOfAttitude(uav_state_.attitude_state), 0, 0>>]_vars

(***************************************************************************)
(* Parameter updates on every gain field                                   *)
(***************************************************************************)
\* the values a gain may be given; reset_integral is a flag
GainValues(name) ==
    IF name = TrajectoryControl(<<"reset_integral">>) THEN BOOLEAN
    ELSE {Scale, 2 * Scale}

GainParameters ==
    UNION { {[name |-> n, value |-> v] : v \in GainValues(n)} : n \in FieldNames }

\* one parameter, or two in a row
GainBatches ==
    {<<p>> : p \in GainParameters} \cup {<<p, q>> : p, q \in GainParameters}

WrittenNames == {n \in FieldNames : written[n] /= <<>>}

\* the parameter protocol alone, on all the gain fields
NextGains ==
    \/ ownInitialize
    \/ \E parameters \in GainBatches :
          /\ Cardinality(WrittenNames) < MaxWritten
          /\ parametersCallback(parameters)

SpecGains == Init /\ [][NextGains]_vars

\* the field a name addresses, read from the controller
FieldValue(name) ==
    CASE name = <<"mass">> -> mass_
      [] name = TrajectoryControl(<<"reset_integral">>) -> pid_handler_.reset_integral
      [] name = TrajectoryControl(<<"antiwindup_cte">>) -> pid_handler_.antiwindup
      [] name = TrajectoryControl(<<"alpha">>) -> pid_handler_.alpha
      [] name = TrajectoryControl(<<"kp", ".", "x">>) -> pid_handler_.Kp[1]
      [] name = TrajectoryControl(<<"kp", ".", "y">>) -> pid_handler_.Kp[2]
      [] name = TrajectoryControl(<<"kp", ".", "z">>) -> pid_handler_.Kp[3]
      [] name = TrajectoryControl(<<"ki", ".", "x">>) -> pid_handler_.Ki[1]
      [] name = TrajectoryControl(<<"ki", ".", "y">>) -> pid_handler_.Ki[2]
      [] name = TrajectoryControl(<<"ki", ".", "z">>) -> pid_handler_.Ki[3]
      [] name = TrajectoryControl(<<"kd", ".", "x">>) -> pid_handler_.Kd[1]
      [] name = TrajectoryControl(<<"kd", ".", "y">>) -> pid_handler_.Kd[2]
      [] name = TrajectoryControl(<<"kd", ".", "z">>) -> pid_handler_.Kd[3]
      [] name = TrajectoryControl(<<"roll_control", ".", "kp">>) -> Kp_ang_mat_[1][1]
      [] name = TrajectoryControl(<<"pitch_control", ".", "kp">>) -> Kp_ang_mat_[2][2]
      [] name = TrajectoryControl(<<"yaw_control", ".", "kp">>) -> Kp_ang_mat_[3][3]

\* the value a field has before any update: that of the object as made
InitialValue(name) ==
    IF name = TrajectoryControl(<<"reset_integral">>) THEN FALSE ELSE 0

\* C12: after any sequence of parameter batches every gain field holds the
\* value of the last update addressed to it, or its initial value if none
\* was; so an update of one field changes no other field, and the
\* off-diagonal entries of the angular gain matrix never change.
C12_PerFieldOverwrite ==
    pc = "initialized" =>
        /\ \A n \in FieldNames :
              FieldValue(n) = IF written[n] = <<>> THEN InitialValue(n)
                                                   ELSE written[n][1]
        /\ \A i, j \in 1..3 : i /= j => Kp_ang_mat_[i][j] = 0

C12_Witness ==
    /\ ret.op = "parametersCallback"
    /\ written[TrajectoryControl(<<"kd", ".", "y">>)] = <<2 * Scale>>
    /\ written[TrajectoryControl(<<"yaw_control", ".", "kp">>)] = <<Scale>>
    /\ written[NameMass] = <<>>
    /\ pid_handler_.Kd = <<0, 2 * Scale, 0>>

(***************************************************************************)
(* Routing of parameter names                                              *)
(***************************************************************************)
\* "trajectory_control" with no dot and no subname
NameNoDot == <<"trajectory_control">>
\* a name whose part before the first dot is "mass"
NameMassDot == <<"mass", ".", "x">>

\* a field that parameters_list_ does not name
NameYawKp == TrajectoryControl(<<"yaw_control", ".", "kp">>)

\* the parameters of the routing specification: the names of fields with two
\* values, the other names with one
RoutingParameters ==
    [name : {NameMass, NameKpX, NameRollKp, NameYawKp}, value : {Scale, 2 * Scale}]
    \cup [name : {NameNoField, NameOther, NameNoDot, NameMassDot}, value : {Scale}]

\* one parameter, or two in a row
RoutingBatches ==
    {<<p>> : p \in RoutingParameters} \cup {<<p, q>> : p, q \in RoutingParameters}

\* the parameter protocol alone, on names of every form
NextRouting ==
    \/ ownInitialize
    \/ \E parameters \in RoutingBatches : parametersCallback(parameters)

SpecRouting == Init /\ [][NextRouting]_vars

\* "mass", or "trajectory_control.<subname>"
RoutedForm(name) ==
    \/ name = <<"mass">>
    \/ /\ Len(name) >= 3
       /\ name[1] = "trajectory_control"
       /\ name[2] = "."

Elements(list) == {list[i] : i \in 1..Len(list)}

NamesOf(parameters) == {parameters[i].name : i \in 1..Len(parameters)}

\* C13: a parameter whose name is neither "mass" nor of the form
\* "trajectory_control.<subname>" is ignored: a batch of such names changes
\* nothing of the controller, and in any batch a gain field changes, a name
\* leaves the pending list or parameters_read changes only through a name of
\* one of the two forms that the batch carries.
C13_OtherNamesIgnored ==
    [][ret'.op = "parametersCallback" =>
          \A parameters \in RoutingBatches :
              parametersCallback(parameters) =>
                  LET routed == {n \in NamesOf(parameters) : RoutedForm(n)}
                  IN  /\ routed = {} => UNCHANGED plugin
                      /\ \A n \in FieldNames :
                            FieldValue(n)' /= FieldValue(n) => n \in routed
                      /\ Elements(parameters_to_read_) \ Elements(parameters_to_read_')
                            \subseteq routed
                      /\ Elements(parameters_to_read_') \subseteq
                            Elements(parameters_to_read_)
                      /\ flags_' /= flags_ => routed /= {}]_vars

C13_Witness ==
    /\ ret.op = "parametersCallback"
    /\ written = [n \in FieldNames |-> <<>>]
    /\ pc = "initialized"
    /\ parameters_to_read_ = parameters_list_
    /\ ~flags_.parameters_read

(***************************************************************************)
(* Compute steps between parameter updates                                 *)
(***************************************************************************)
\* the listed names with two values each
LatestParameters ==
    [name : {NameMass, NameKpX, NameRollKp}, value : {Scale, 2 * Scale}]

\* the controller with parameters arriving one by one between the compute
\* steps
NextLatest ==
    \/ ownInitialize
    \/ \E param \in LatestParameters : parametersCallback(<<param>>)
    \/ \E pose_msg \in PoseMsgs, twist_msg \in TwistMsgs :
          updateState(pose_msg, twist_msg, twist_msg)
    \/ \E traj_msg \in TrajMsgs : updateReference(traj_msg)
    \/ \E in_mode \in InModes, out_mode \in OutModes : setMode(in_mode, out_mode)
    \/ \E dt \in DtValues, force_error \in ForceErrors :
          computeOutput(dt, StaleTwist, StaleThrust, force_error)

SpecLatest == Init /\ [][NextLatest]_vars

\* the value delivered last for a field, its initial value if none was
LastWritten(name) ==
    IF written[name] = <<>> THEN InitialValue(name) ELSE written[name][1]

\* the angular gain matrix of the values delivered last
LastWrittenKp ==
    << <<LastWritten(TrajectoryControl(<<"roll_control", ".", "kp">>)), 0, 0>>,
       <<0, LastWritten(TrajectoryControl(<<"pitch_control", ".", "kp">>)), 0>>,
       <<0, 0, LastWritten(TrajectoryControl(<<"yaw_control", ".", "kp">>))>> >>

\* C14: setMode, updateState, updateReference and computeOutput change
\* neither the mass, nor the angular gain matrix, nor the pending list, nor
\* parameters_read, and a compute step that succeeds computes its command
\* with the mass and angular gains that the last parameter updates delivered.
C14_GainsOnlyByParameters ==
    [][ret'.op \in {"setMode", "updateState", "updateReference", "computeOutput"} =>
          /\ UNCHANGED <<mass_, Kp_ang_mat_, parameters_to_read_>>
          /\ flags_'.parameters_read = flags_.parameters_read
          /\ ret'.op = "computeOutput" /\ ret'.result =>
                control_command_' =
                    computeTrajectoryControl(LastWritten(NameMass), LastWrittenKp,
                                             ret'.force_error,
                                             uav_state_.attitude_state,
                                             control_ref_'.acceleration,
                                             control_ref_'.yaw[1])]_vars

C14_Witness ==
    /\ ret.op = "computeOutput"
    /\ ret.result
    /\ mass_ = 2 * Scale
    /\ Kp_ang_mat_[1][1] = 2 * Scale
    /\ control_command_.PQR /= <<0, 0, 0>>
    /\ parameters_to_read_ = <<>>

\* C15: in a compute step that succeeds, with yaw mode YAW_ANGLE the yaw
\* angle handed to the control law is the stored reference yaw angle as it
\* was; with YAW_SPEED it is the yaw of the vehicle attitude plus the
\* reference yaw rate times dt, whatever the stored yaw angle was (yaw 0, rate
\* 1.0 and dt 0.1 give 0.1).
C15_YawResolution ==
    [][ret'.op = "computeOutput" /\ ret'.result =>
          /\ control_command_' =
                 computeTrajectoryControl(mass_, Kp_ang_mat_, ret'.force_error,
                                          uav_state_.attitude_state,
                                          control_ref_.acceleration,
                                          control_ref_'.yaw[1])
          /\ control_mode_in_.yaw_mode = "YAW_ANGLE" =>
                control_ref_'.yaw[1] = control_ref_.yaw[1]
          /\ control_mode_in_.yaw_mode = "YAW_SPEED" =>
                /\ control_ref_'.yaw[1] =
                       YawOfAttitude(uav_state_.attitude_state)
                           + (control_ref_.yaw[2] * ret'.dt) \div Scale
                /\ /\ uav_state_.attitude_state = <<0, 0, 0, 100>>
                   /\ control_ref_.yaw[2] = 100
                   /\ ret'.dt = 10
                   => control_ref_'.yaw[1] = 10]_vars

C15_Witness ==
    /\ ret.op = "computeOutput"
    /\ ret.result
    /\ control_mode_in_.yaw_mode = "YAW_SPEED"
    /\ uav_state_.attitude_state = <<0, 0, 0, 100>>
    /\ control_ref_.yaw = <<10, 100, 100>>
    /\ ret.dt = 10

\* the situation of a vehicle holding its place: every flag true, TRAJECTORY
\* with YAW_ANGLE, identity attitude, the reference at the current position
\* with zero velocity, zero acceleration and yaw 0
HoverSituation ==
    /\ AllFlags
    /\ control_mode_in_.control_mode = "TRAJECTORY"
    /\ control_mode_in_.yaw_mode = "YAW_ANGLE"
    /\ uav_state_.attitude_state = <<0, 0, 0, 100>>
    /\ control_ref_.position = uav_state_.position
    /\ control_ref_.velocity = <<0, 0, 0>>
    /\ control_ref_.acceleration = <<0, 0, 0>>
    /\ control_ref_.yaw[1] = 0

\* C17: a compute step in the hover situation whose calculator answers a zero
\* force succeeds with a thrust of mass times gravity (9.81 for a mass of 1.0)
\* and a zero body-rate command, in the stored command and in the messages of
\* the caller.
C17_HoverThrust ==
    ret.op = "computeOutput" /\ HoverSituation =>
        /\ ret.result
        /\ ret.force_error = <<0, 0, 0>> =>
              /\ control_command_.thrust = (mass_ * 981) \div 100
              /\ mass_ = 100 => control_command_.thrust = 981
              /\ control_command_.PQR = <<0, 0, 0>>
              /\ ret.thrust.thrust = control_command_.thrust
              /\ ret.twist.angular = <<0, 0, 0>>

C17_Witness ==
    /\ ret.op = "computeOutput"
    /\ HoverSituation
    /\ ret.force_error = <<0, 0, 0>>
    /\ mass_ = 100
    /\ Kp_ang_mat_ /= ZeroMat
    /\ ret.thrust.thrust = 981

(***************************************************************************)
(* The rotation error on its own: the lines of computeTrajectoryControl    *)
(* that compute E_rot, applied to pairs of matrices, rotations or not      *)
(***************************************************************************)
\* columns of the matrices: unit axes, a yawed axis, and vectors that make
\* the matrix no rotation
RotationColumns ==
    {<<100, 0, 0>>, <<28, 96, 0>>, <<-50, 30, 200>>}

RotationInputs ==
    {FromCols(a, b, c) : a \in RotationColumns,
                         b \in {<<0, 100, 0>>, <<-96, 28, 0>>},
                         c \in {<<0, 0, 100>>, <<-50, 30, 200>>}}
        \cup {RotationMatrix(QIdentity), RotationMatrix(QYaw), ZeroMat}

\* the computation of E_rot from rot_matrix and R_des
RotationErrorStep(rot_matrix, R_des) ==
    /\ ret' = [op |-> "RotationError", rot_matrix |-> rot_matrix, R_des |-> R_des,
               E_rot |-> RotationError(rot_matrix, R_des)]
    /\ UNCHANGED <<pc, plugin, seen, written, since_mode>>

NextRotation ==
    \E rot_matrix \in RotationInputs, R_des \in RotationInputs :
        RotationErrorStep(rot_matrix, R_des)

SpecRotation == Init /\ [][NextRotation]_vars

\* C16: the rotation error of a matrix against itself is the zero vector, and
\* swapping the current and the desired matrix flips the sign of every
\* component of the error, for every pair of matrices.
C16_RotationErrorAntisymmetric ==
    ret.op = "RotationError" =>
        /\ ret.rot_matrix = ret.R_des => ret.E_rot = <<0, 0, 0>>
        /\ RotationError(ret.R_des, ret.rot_matrix) =
               <<-ret.E_rot[1], -ret.E_rot[2], -ret.E_rot[3]>>
        /\ ret.E_rot =
               LET M == [i \in 1..3 |-> [j \in 1..3 |->
                           Dot(Col(ret.R_des, i), Col(ret.rot_matrix, j))
                             - Dot(Col(ret.rot_matrix, i), Col(ret.R_des, j))]]
               IN  <<RDiv(M[3][2], 2), RDiv(M[1][3], 2), RDiv(M[2][1], 2)>>

C16_Witness ==
    /\ ret.op = "RotationError"
    /\ ret.rot_matrix /= ret.R_des
    /\ ret.rot_matrix /= Transpose(ret.rot_matrix)
    /\ ret.E_rot[1] /= 0 /\ ret.E_rot[2] /= 0 /\ ret.E_rot[3] /= 0

\* C18: whenever a compute step succeeds, the active control mode is
\* TRAJECTORY, the last setMode asked for TRAJECTORY, an updateState and an
\* updateReference have both come after that setMode, and the state and the
\* reference the step used are those of a delivered pose and a delivered
\* trajectory point, never the values a reset leaves.
C18_NoCommandFromResetData ==
    ret.op = "computeOutput" /\ ret.result =>
        /\ control_mode_in_.control_mode = "TRAJECTORY"
        /\ since_mode.set_mode = "TRAJECTORY"
        /\ since_mode.state
        /\ since_mode.reference
        /\ \E pose_msg \in PoseMsgs :
              /\ uav_state_.position = pose_msg.position
              /\ uav_state_.attitude_state = pose_msg.orientation
        /\ \E traj_msg \in TrajMsgs :
              /\ control_ref_.position = SubSeq(traj_msg.positions, 1, 3)
              /\ control_ref_.velocity = SubSeq(traj_msg.velocities, 1, 3)
              /\ control_ref_.acceleration = SubSeq(traj_msg.accelerations, 1, 3)
              /\ control_ref_.yaw[2] = traj_msg.velocities[4]
        /\ uav_state_.position /= UAV_state.position

C18_Witness ==
    /\ ret.op = "computeOutput"
    /\ ret.result
    /\ since_mode.set_mode = "TRAJECTORY"
    /\ since_mode.state
    /\ since_mode.reference
    /\ control_ref_.position /= uav_state_.position

\* the last setMode asked for a control mode other than TRAJECTORY and HOVER
OtherModeSet == since_mode.set_mode \notin {"none", "TRAJECTORY", "HOVER"}

\* the last compute step ended with the unknown control mode outcome
UnknownControlMode ==
    ret.op = "computeOutput" /\ ret.reason = "Unknown control mode"

\* C19 as stated: after a setMode for a mode other than TRAJECTORY and HOVER
\* ref_received stays false and every compute step fails at the readiness
\* gate; the unknown control mode outcome happens only in HOVER, entered by a
\* hover setMode issued when state_received and ref_received were both true.
C19_Original ==
    /\ OtherModeSet =>
          /\ ~flags_.ref_received
          /\ ret.op = "computeOutput" => ret.reason \in NotReadyReasons
    /\ UnknownControlMode =>
          /\ control_mode_in_.control_mode = "HOVER"
          /\ since_mode.set_mode = "HOVER"
          /\ since_mode.state_before
          /\ since_mode.ref_before

\* C19, amended: after a setMode for a mode other than TRAJECTORY and HOVER
\* ref_received stays false and every compute step fails at the readiness
\* gate; the unknown control mode outcome happens only in HOVER, entered by a
\* hover setMode issued when ref_received was true, while state_received was
\* true at that setMode or was set by an updateState after it.
C19_UnknownControlModeOnlyInHover ==
    /\ OtherModeSet =>
          /\ ~flags_.ref_received
          /\ ret.op = "computeOutput" => ret.reason \in NotReadyReasons
    /\ UnknownControlMode =>
          /\ control_mode_in_.control_mode = "HOVER"
          /\ since_mode.set_mode = "HOVER"
          /\ since_mode.ref_before
          /\ since_mode.state_before \/ since_mode.state

C19_Witness ==
    /\ UnknownControlMode
    /\ control_mode_in_.control_mode = "HOVER"
    /\ since_mode.ref_before
    /\ ~since_mode.state_before
    /\ since_mode.state

====
